---- MODULE Spec2Model ----
(***************************************************************************)
(* A model of cpp/util/libevent_wrapper.cc: the adapter objects Base,      *)
(* Event, HttpServer, HttpRequest and HttpConnection, together with the    *)
(* part of the libevent engine contract that the adapter relies on at      *)
(* each call site (what the engine returns, when it calls back, what it    *)
(* frees).  A failed CHECK_* ends the process: proc records the site.      *)
(***************************************************************************)
EXTENDS Integers, Sequences, FiniteSets, TLC

VARIABLES
  proc,        \* "running", or "abort:<site>" after a failed CHECK / crash
  base,        \* Base: "none" | "ok" (base_ non-null) | "null" (base_ NULL) | "freed"
  \* ---- HttpConnection / GetPortFromUri
  uriScheme,   \* evhttp_uri_get_scheme(uri): a C string, or NoScheme (NULL)
  uriPort,     \* evhttp_uri_get_port(uri): -1 when the URI declares none
  portResult,  \* what the constructor passed on as port: [set, port]
  conn,        \* HttpConnection::conn_: "none" | "alive" | "freed"
  \* ---- Base::dns_ and its lock
  dns_,        \* 0 is NULL, otherwise the identity of the resolver handle
  dnsCreated,  \* number of evdns_base_new calls that returned a handle
  dnsLock,     \* 0 when dns_lock_ is free, otherwise the holding thread
  tpc,         \* per thread: position inside GetDns / HttpConnectionNew
  tvia,        \* per thread: entered through "GetDns" or "HttpConnectionNew"
  tret,        \* per thread: the handle GetDns returned (0: none yet)
  tcalls,      \* per thread: calls started so far
  \* ---- HttpRequest wrappers and the engine request objects behind them
  wrapper,     \* per request: the HttpRequest object, "none" | "alive" | "deleted"
  req_,        \* per request: HttpRequest::req_, "set" or "null" (stale once deleted)
  queued,      \* per request: the connection holds it, completion still owed
  engFree,     \* per request: times the evhttp_request was freed
  freedBy,     \* per request: who freed it, subset of {"wrapper", "engine"}
  cbCount,     \* per request: invocations of the user callback_
  doneCount,   \* per request: runs of HttpRequest::Done past its CHECKs
  wrapperDel,  \* per request: times the HttpRequest was deleted
  \* ---- HttpServer
  http,        \* per server: HttpServer::http_, "none" | "alive" | "freed"
  handlers_,   \* per server: HttpServer::handlers_, a sequence of Handler records
  engineCbs,   \* per server: indices of the records the endpoint dispatches to
  boundPorts,  \* per server: ports its endpoint listens on
  lastAdd,     \* per server: the last AddHandler call, [called, rc, ret]
  handled,     \* the record last dispatched to: [server, index], index 0 if none
  \* ---- the loop of Base (event_base_loop) and the process signals
  loopPc,      \* "idle" | "top" | "wait" | "run": where event_base_loop stands
  loopCall,    \* "none" | "Dispatch" | "DispatchOnce": the call that runs, or ran last
  loopFlags,   \* flags of that call: "FOREVER" | "ONCE" | "NONBLOCK"
  gotterm,     \* event_base::event_gotterm, set by the loopexit callback
  exitEv,      \* the one-shot event of event_base_loopexit: "none" | "pending" | "active"
  dispatchCalls, \* Dispatch calls so far; each registered three signal events
  sigPending,  \* signals delivered to the process, not yet seen by the loop
  sigActive,   \* number of signal events queued for their callback, one per
               \* signal seen (the events of one signal run the same handler)
  inCb,        \* the callback being executed: [kind, id, flags], kind "none" if none
  nRun,        \* event_process_active ran at least one callback in this pass
  addCalls,    \* Event::Add calls with a non-negative timeout so far
  \* ---- Event objects
  evObj,       \* per event: the Event object, "none" | "alive" | "freed"
  evPersist,   \* per event: EV_PERSIST is among its flags
  evPending,   \* per event: added to the base (event_add), waiting
  evRes,       \* per event: "none", or the flags it was activated with
  evTv,        \* per event: ticks of the timeout the engine holds, -1 if none
  evElapsed,   \* per event: ticks since that timeout was set
  evReady,     \* per event: the engine finds its interest condition met
  armLast,     \* per event: the last Add, "none" | "negative" | "timed"
  armTimed,    \* per event: the non-negative Add argument still in effect, -1 if none
  \* ---- threads calling Dispatch / DispatchOnce on the one Base
  runningLoop, \* event_base::running_loop: a thread is inside event_base_loop
  thrPc,       \* per thread: "out" | "loop" (inside the loop) | "cb" (in a callback)
  thrCb,       \* per thread: kind of the callback it executes, "none" if none
  thrCalls,    \* per thread: loop calls made so far
  readyCbs     \* kinds of callback the loop has ready to run

connVars == <<uriScheme, uriPort, portResult, conn>>
dnsVars  == <<dns_, dnsCreated, dnsLock, tpc, tvia, tret, tcalls>>
reqVars  == <<wrapper, req_, queued, engFree, freedBy, cbCount, doneCount, wrapperDel>>
srvVars  == <<http, handlers_, engineCbs, boundPorts, lastAdd, handled>>
loopVars == <<loopPc, loopCall, loopFlags, gotterm, exitEv, dispatchCalls,
              sigPending, sigActive, inCb, nRun, addCalls>>
evVars   == <<evObj, evPersist, evPending, evRes, evTv, evElapsed, evReady,
              armLast, armTimed>>
thrVars  == <<runningLoop, thrPc, thrCb, thrCalls, readyCbs>>
vars     == <<proc, base, connVars, dnsVars, reqVars, srvVars, loopVars, evVars, thrVars>>

\* what the steps of one component leave alone
dnsOthers == <<base, connVars, reqVars, srvVars, loopVars, evVars, thrVars>>
reqOthers == <<base, uriScheme, uriPort, portResult, dnsVars, srvVars, loopVars, evVars,
               thrVars>>
connOthers == <<base, dnsLock, tpc, tvia, tret, tcalls, srvVars, loopVars, evVars, thrVars>>
srvOthers == <<base, connVars, dnsVars, reqVars, loopVars, evVars, thrVars>>
loopOthers == <<connVars, dnsVars, reqVars, srvVars, thrVars>>

Running == proc = "running"

(***************************************************************************)
(* Bounds                                                                  *)
(***************************************************************************)
PortSlack  == 2    \* declared ports sampled this far around 0 and 65535
NumThreads == 2    \* threads calling GetDns concurrently
MaxCalls   == 2    \* GetDns calls per thread
MaxReqs    == 2    \* HttpRequest wrappers
MaxHandlers == 3   \* AddHandler calls per server
MaxEvents  == 1    \* Event objects
MaxDispatch == 1   \* Dispatch calls on the Base
MaxTimeout == 1    \* largest Add timeout, in ticks
TicksPerSec == 2   \* clock ticks per second
MaxAdds    == 1    \* Event::Add calls with a timeout in one run

Threads == 1..NumThreads
Reqs    == 1..MaxReqs
Servers == {"first", "second"}  \* two HttpServer objects on the loop
Paths   == {"/ping", "/pong"}   \* exact URL paths handed to AddHandler
BindPorts == {8080}             \* port handed to Bind
Events  == 1..MaxEvents
Signals == {"SIGHUP", "SIGINT", "SIGTERM"}
\* the user callbacks a loop runs: Event::cb_, Handler::cb, HttpRequest::callback_
CbKinds == {"event", "http", "request"}
NoCb    == [kind |-> "none", id |-> 0, flags |-> "none"]
kNumMicrosPerSecond == 1000000

(***************************************************************************)
(* C strings as sequences of character codes; NoScheme is the NULL that    *)
(* evhttp_uri_get_scheme returns for a URI without a scheme.               *)
(***************************************************************************)
NoScheme  == <<-1>>
Str_http  == <<104, 116, 116, 112>>
Str_https == <<104, 116, 116, 112, 115>>
Str_HTTP  == <<72, 84, 84, 80>>
Str_htt   == <<104, 116, 116>>
Str_ftp   == <<102, 116, 112>>
Str_empty == << >>
Schemes   == {Str_http, Str_https, Str_HTTP, Str_htt, Str_ftp, Str_empty}

UShortMax == 65535
Ports == ((0 - PortSlack)..PortSlack)
           \cup ((UShortMax - PortSlack)..(UShortMax + PortSlack))
           \cup {80, 8080}

\* the character at position i of a C string, 0 (NUL) past its end
CharAt(s, i) == IF i <= Len(s) THEN s[i] ELSE 0

RECURSIVE strcmpFrom(_, _, _)
strcmpFrom(a, b, i) ==
  IF CharAt(a, i) # CharAt(b, i)
    THEN (IF CharAt(a, i) < CharAt(b, i) THEN -1 ELSE 1)
    ELSE IF CharAt(a, i) = 0 THEN 0 ELSE strcmpFrom(a, b, i + 1)

strcmp(a, b) == strcmpFrom(a, b, 1)

\* GetPortFromUri with 65535 itself taken as out of range
GetPortFromUri_OffByOne(scheme, port) ==
  IF port < 1 \/ port >= 65535
    THEN IF scheme = NoScheme THEN [ok |-> FALSE, port |-> 0]
         ELSE [ok |-> TRUE, port |-> IF strcmp(Str_http, scheme) = 0 THEN 80 ELSE 0]
    ELSE [ok |-> TRUE, port |-> port % 65536]

\* GetPortFromUri taking a missing scheme for a scheme other than "http"
GetPortFromUri_NullSchemeZero(scheme, port) ==
  IF port < 1 \/ port > 65535
    THEN [ok |-> TRUE,
          port |-> IF scheme # NoScheme /\ strcmp(Str_http, scheme) = 0 THEN 80 ELSE 0]
    ELSE [ok |-> TRUE, port |-> port % 65536]

\* unsigned short GetPortFromUri(const evhttp_uri* uri); ok = FALSE is the
\* failed CHECK_NOTNULL on the scheme
GetPortFromUri(scheme, port) ==
  IF port < 1 \/ port > 65535
    THEN IF scheme = NoScheme THEN [ok |-> FALSE, port |-> 0]
         ELSE [ok |-> TRUE, port |-> IF strcmp(Str_http, scheme) = 0 THEN 80 ELSE 0]
    ELSE [ok |-> TRUE, port |-> port % 65536]

(***************************************************************************)
(* Initial values of each group of variables: no object exists yet.        *)
(***************************************************************************)
ConnInit0 ==
  /\ uriScheme = Str_http
  /\ uriPort = -1
  /\ portResult = [set |-> FALSE, port |-> 0]
  /\ conn = "none"

DnsInit0 ==
  /\ dns_ = 0
  /\ dnsCreated = 0
  /\ dnsLock = 0
  /\ tpc = [t \in Threads |-> "idle"]
  /\ tvia = [t \in Threads |-> "GetDns"]
  /\ tret = [t \in Threads |-> 0]
  /\ tcalls = [t \in Threads |-> 0]

ReqInit0 ==
  /\ wrapper = [r \in Reqs |-> "none"]
  /\ req_ = [r \in Reqs |-> "null"]
  /\ queued = [r \in Reqs |-> FALSE]
  /\ engFree = [r \in Reqs |-> 0]
  /\ freedBy = [r \in Reqs |-> {}]
  /\ cbCount = [r \in Reqs |-> 0]
  /\ doneCount = [r \in Reqs |-> 0]
  /\ wrapperDel = [r \in Reqs |-> 0]

SrvInit0 ==
  /\ http = [s \in Servers |-> "none"]
  /\ handlers_ = [s \in Servers |-> << >>]
  /\ engineCbs = [s \in Servers |-> {}]
  /\ boundPorts = [s \in Servers |-> {}]
  /\ lastAdd = [s \in Servers |-> [called |-> FALSE, rc |-> 0, ret |-> FALSE]]
  /\ handled = [server |-> "first", index |-> 0]

LoopInit0 ==
  /\ loopPc = "idle"
  /\ loopCall = "none"
  /\ loopFlags = "FOREVER"
  /\ gotterm = FALSE
  /\ exitEv = "none"
  /\ dispatchCalls = 0
  /\ sigPending = {}
  /\ sigActive = 0
  /\ inCb = NoCb
  /\ nRun = FALSE
  /\ addCalls = 0

EvInit0 ==
  /\ evObj = [e \in Events |-> "none"]
  /\ evPersist = [e \in Events |-> FALSE]
  /\ evPending = [e \in Events |-> FALSE]
  /\ evRes = [e \in Events |-> "none"]
  /\ evTv = [e \in Events |-> -1]
  /\ evElapsed = [e \in Events |-> 0]
  /\ evReady = [e \in Events |-> FALSE]
  /\ armLast = [e \in Events |-> "none"]
  /\ armTimed = [e \in Events |-> -1]

ThrInit0 ==
  /\ runningLoop = FALSE
  /\ thrPc = [t \in Threads |-> "out"]
  /\ thrCb = [t \in Threads |-> "none"]
  /\ thrCalls = [t \in Threads |-> 0]
  /\ readyCbs = {}

(***************************************************************************)
(* Base::GetDns, one step per statement so that threads interleave.        *)
(* std::lock_guard<mutex> blocks until dns_lock_ is free.                  *)
(***************************************************************************)
LockAcquire_NoWait(t) == dnsLock' = t

\* lock_guard<mutex> lock(dns_lock_);
LockAcquire(t) == dnsLock = 0 /\ dnsLock' = t

\* a thread enters GetDns, directly or from HttpConnectionNew
GetDnsCall(t) ==
  /\ Running /\ base = "ok"
  /\ tpc[t] = "idle" /\ tcalls[t] < MaxCalls
  /\ \E via \in {"GetDns", "HttpConnectionNew"} : tvia' = [tvia EXCEPT ![t] = via]
  /\ tpc' = [tpc EXCEPT ![t] = "lock"]
  /\ tret' = [tret EXCEPT ![t] = 0]
  /\ tcalls' = [tcalls EXCEPT ![t] = @ + 1]
  /\ UNCHANGED <<proc, dnsOthers, dns_, dnsCreated, dnsLock>>

GetDnsLock(t) ==
  /\ Running /\ tpc[t] = "lock"
  /\ LockAcquire(t)
  /\ tpc' = [tpc EXCEPT ![t] = "check"]
  /\ UNCHANGED <<proc, dnsOthers, dns_, dnsCreated, tvia, tret, tcalls>>

\* if (!dns_)
GetDnsCheck(t) ==
  /\ Running /\ tpc[t] = "check"
  /\ tpc' = [tpc EXCEPT ![t] = IF dns_ = 0 THEN "create" ELSE "ret"]
  /\ UNCHANGED <<proc, dnsOthers, dns_, dnsCreated, dnsLock, tvia, tret, tcalls>>

\* dns_ = CHECK_NOTNULL(evdns_base_new(base_, 1)); the engine returns a
\* fresh handle, or NULL when it cannot allocate one
GetDnsCreate(t) ==
  /\ Running /\ tpc[t] = "create"
  /\ \E allocated \in BOOLEAN :
       IF allocated
         THEN /\ dns_' = dnsCreated + 1
              /\ dnsCreated' = dnsCreated + 1
              /\ tpc' = [tpc EXCEPT ![t] = "ret"]
              /\ UNCHANGED proc
         ELSE /\ proc' = "abort:GetDns"
              /\ UNCHANGED <<dns_, dnsCreated, tpc>>
  /\ UNCHANGED <<dnsOthers, dnsLock, tvia, tret, tcalls>>

\* return dns_;  the lock_guard releases dns_lock_ on the way out
GetDnsReturn(t) ==
  /\ Running /\ tpc[t] = "ret"
  /\ tret' = [tret EXCEPT ![t] = dns_]
  /\ dnsLock' = 0
  /\ tpc' = [tpc EXCEPT ![t] = IF tvia[t] = "HttpConnectionNew" THEN "connnew" ELSE "idle"]
  /\ UNCHANGED <<proc, dnsOthers, dns_, dnsCreated, tvia, tcalls>>

\* Base::HttpConnectionNew after GetDns() returned:
\* CHECK_NOTNULL(evhttp_connection_base_new(base_, dns, host, port))
HttpConnectionNewAlloc(t) ==
  /\ Running /\ tpc[t] = "connnew"
  /\ \E allocated \in BOOLEAN :
       IF allocated
         THEN tpc' = [tpc EXCEPT ![t] = "idle"] /\ UNCHANGED proc
         ELSE proc' = "abort:HttpConnectionNew" /\ UNCHANGED tpc
  /\ UNCHANGED <<dnsOthers, dns_, dnsCreated, dnsLock, tvia, tret, tcalls>>

(***************************************************************************)
(* HttpConnection                                                          *)
(***************************************************************************)
\* HttpConnection::HttpConnection: conn_(base->HttpConnectionNew(host,
\* GetPortFromUri(uri))), run by one thread without interleaving: the port
\* is resolved first, then GetDns creates the resolver if there is none,
\* then the engine allocates the connection.
HttpConnectionCtor ==
  /\ Running /\ base = "ok" /\ conn = "none" /\ dnsLock = 0
  /\ LET r == GetPortFromUri(uriScheme, uriPort) IN
     IF ~r.ok
       THEN /\ proc' = "abort:GetPortFromUri"
            /\ UNCHANGED <<portResult, conn, dns_, dnsCreated>>
       ELSE \E dnsAllocated, connAllocated \in BOOLEAN :
              /\ portResult' = [set |-> TRUE, port |-> r.port]
              /\ IF dns_ = 0 /\ ~dnsAllocated
                   THEN /\ proc' = "abort:GetDns"
                        /\ UNCHANGED <<conn, dns_, dnsCreated>>
                   ELSE /\ dns_' = IF dns_ = 0 THEN dnsCreated + 1 ELSE dns_
                        /\ dnsCreated' = IF dns_ = 0 THEN dnsCreated + 1 ELSE dnsCreated
                        /\ IF connAllocated
                             THEN conn' = "alive" /\ UNCHANGED proc
                             ELSE proc' = "abort:HttpConnectionNew" /\ UNCHANGED conn
  /\ UNCHANGED <<uriScheme, uriPort, connOthers, reqVars>>

\* HttpConnection::~HttpConnection: evhttp_connection_free(conn_).  The
\* engine frees every request still queued on the connection and does not
\* call its completion callback.
HttpConnectionDtor ==
  /\ Running /\ conn = "alive"
  /\ conn' = "freed"
  /\ engFree' = [r \in Reqs |-> IF queued[r] THEN engFree[r] + 1 ELSE engFree[r]]
  /\ freedBy' = [r \in Reqs |-> IF queued[r] THEN freedBy[r] \cup {"engine"} ELSE freedBy[r]]
  /\ queued' = [r \in Reqs |-> FALSE]
  /\ UNCHANGED <<proc, reqOthers, wrapper, req_, cbCount, doneCount, wrapperDel>>

(***************************************************************************)
(* HttpRequest                                                             *)
(***************************************************************************)
\* HttpRequest::HttpRequest: req_(CHECK_NOTNULL(evhttp_request_new(&Done, this)))
HttpRequestCtor(r) ==
  /\ Running /\ wrapper[r] = "none"
  /\ \E allocated \in BOOLEAN :
       IF allocated
         THEN /\ wrapper' = [wrapper EXCEPT ![r] = "alive"]
              /\ req_' = [req_ EXCEPT ![r] = "set"]
              /\ UNCHANGED proc
         ELSE /\ proc' = "abort:HttpRequest"
              /\ UNCHANGED <<wrapper, req_>>
  /\ UNCHANGED <<reqOthers, conn, queued, engFree, freedBy, cbCount, doneCount, wrapperDel>>

\* the test of ~HttpRequest: if (req_) evhttp_request_free(req_);
DtorFrees(reqField) == reqField = "set"

\* HttpRequest::~HttpRequest run by the owner of the wrapper.  The engine
\* keeps a queued request on the connection: freeing it here leaves the
\* connection with a pointer to freed memory (queued stays TRUE).
HttpRequestDtor(r) ==
  /\ Running /\ wrapper[r] = "alive"
  /\ wrapper' = [wrapper EXCEPT ![r] = "deleted"]
  /\ wrapperDel' = [wrapperDel EXCEPT ![r] = @ + 1]
  /\ engFree' = [engFree EXCEPT ![r] = IF DtorFrees(req_[r]) THEN @ + 1 ELSE @]
  /\ freedBy' = [freedBy EXCEPT ![r] = IF DtorFrees(req_[r]) THEN @ \cup {"wrapper"} ELSE @]
  /\ UNCHANGED <<proc, reqOthers, conn, req_, queued, cbCount, doneCount>>

\* HttpConnection::MakeRequest: CHECK_EQ(evhttp_make_request(conn_,
\* req->get(), type, uri), 0).  The caller passes a wrapper it has not
\* submitted before and whose engine object is still valid.
MakeRequest(r) ==
  /\ Running /\ conn = "alive"
  /\ wrapper[r] = "alive" /\ req_[r] = "set" /\ ~queued[r] /\ engFree[r] = 0
  /\ \E rc \in {0, -1} :
       IF rc = 0
         THEN queued' = [queued EXCEPT ![r] = TRUE] /\ UNCHANGED proc
         ELSE proc' = "abort:MakeRequest" /\ UNCHANGED queued
  /\ UNCHANGED <<reqOthers, conn, wrapper, req_, engFree, freedBy, cbCount, doneCount, wrapperDel>>

\* Done leaving req_ as it was: the wrapper's destructor then frees the
\* engine object as well
Done_KeepsReq(r, reqArg) ==
  IF reqArg = "null" \/ (wrapper[r] = "alive" /\ req_[r] # reqArg)
    THEN {[abort |-> TRUE, cb |-> 0, reqField |-> req_[r], deleted |-> FALSE, dtorFreed |-> FALSE]}
    ELSE {[abort |-> FALSE, cb |-> 1, reqField |-> req_[r], deleted |-> TRUE,
           dtorFreed |-> DtorFrees(req_[r])]}

\* HttpRequest::Done(req, userdata) for userdata = wrapper r: the set of
\* outcomes.  abort: a CHECK failed or the process crashed; cb: times
\* callback_ ran; reqField: req_ afterwards; deleted: delete self ran;
\* dtorFreed: that destructor freed the engine object.  A wrapper that was
\* already deleted makes every access through self undefined: the
\* process crashes, or Done runs on the stale object.
Done(r, reqArg) ==
  IF reqArg = "null" \/ (wrapper[r] = "alive" /\ req_[r] # reqArg)
    THEN {[abort |-> TRUE, cb |-> 0, reqField |-> req_[r], deleted |-> FALSE, dtorFreed |-> FALSE]}
    ELSE {[abort |-> FALSE, cb |-> 1, reqField |-> "null", deleted |-> TRUE,
           dtorFreed |-> DtorFrees("null")]}
         \cup (IF wrapper[r] = "alive" THEN {}
               ELSE {[abort |-> TRUE, cb |-> 0, reqField |-> req_[r], deleted |-> FALSE,
                      dtorFreed |-> FALSE]})

\* what one run of Done, followed by the frees the engine does itself
\* (engineFrees of them), does to request r
ApplyDone(r, o, engineFrees) ==
  /\ proc' = IF o.abort THEN "abort:Done" ELSE proc
  /\ cbCount' = [cbCount EXCEPT ![r] = @ + o.cb]
  /\ doneCount' = [doneCount EXCEPT ![r] = IF o.abort THEN @ ELSE @ + 1]
  /\ req_' = [req_ EXCEPT ![r] = o.reqField]
  /\ wrapper' = [wrapper EXCEPT ![r] = IF o.deleted THEN "deleted" ELSE @]
  /\ wrapperDel' = [wrapperDel EXCEPT ![r] = IF o.deleted THEN @ + 1 ELSE @]
  /\ engFree' = [engFree EXCEPT ![r] = @ + engineFrees + (IF o.dtorFreed THEN 1 ELSE 0)]
  /\ freedBy' = [freedBy EXCEPT ![r] =
                   @ \cup (IF engineFrees > 0 THEN {"engine"} ELSE {})
                     \cup (IF o.dtorFreed THEN {"wrapper"} ELSE {})]

\* the engine completes a queued request: it calls Done(req, wrapper) and,
\* once Done has returned, frees req itself
EngineComplete(r) ==
  /\ Running /\ conn = "alive" /\ queued[r]
  /\ \E o \in Done(r, "set") : ApplyDone(r, o, IF o.abort THEN 0 ELSE 1)
  /\ queued' = [queued EXCEPT ![r] = FALSE]
  /\ UNCHANGED <<reqOthers, conn>>

\* the engine gives up on a queued request (connection refused, timeout):
\* it frees req and then calls Done(NULL, wrapper)
EngineFail(r) ==
  /\ Running /\ conn = "alive" /\ queued[r]
  /\ \E o \in Done(r, "null") : ApplyDone(r, o, 1)
  /\ queued' = [queued EXCEPT ![r] = FALSE]
  /\ UNCHANGED <<reqOthers, conn>>

InitReq ==
  /\ proc = "running" /\ base = "ok"
  /\ ConnInit0 /\ DnsInit0 /\ ReqInit0 /\ SrvInit0 /\ LoopInit0 /\ EvInit0 /\ ThrInit0

NextReq ==
  \/ HttpConnectionCtor
  \/ HttpConnectionDtor
  \/ \E r \in Reqs :
       \/ HttpRequestCtor(r)
       \/ MakeRequest(r)
       \/ EngineComplete(r)
       \/ EngineFail(r)
       \/ HttpRequestDtor(r)

SpecReq == InitReq /\ [][NextReq]_vars

\* C1: the engine request object behind every HttpRequest is freed exactly
\* once: by the wrapper's destructor when the wrapper is destroyed before a
\* completion callback fired, only by the engine when the callback fired;
\* it is never freed twice and never left unfreed once the wrapper is gone.
C1_FreedExactlyOnce ==
  \A r \in Reqs :
    /\ engFree[r] <= 1
    /\ cbCount[r] > 0 => "wrapper" \notin freedBy[r]
    /\ (wrapper[r] = "deleted" /\ cbCount[r] = 0) => freedBy[r] = {"wrapper"}
    /\ wrapper[r] = "deleted" => engFree[r] = 1

\* C2: an HttpRequest is pending (req_ set) or completed (req_ null); it
\* never goes back to pending, it becomes completed only in a run of Done,
\* which invokes the user callback exactly once, and neither Done nor the
\* callback runs a second time for the same wrapper.
C2_StateMachine ==
  /\ [][\A r \in Reqs :
         /\ (wrapper[r] # "none" /\ req_[r] = "null") => req_'[r] = "null"
         /\ (wrapper[r] # "none" /\ req_[r] = "set" /\ req_'[r] = "null")
              => (doneCount'[r] = doneCount[r] + 1 /\ cbCount'[r] = cbCount[r] + 1)
         /\ (cbCount'[r] # cbCount[r] \/ doneCount'[r] # doneCount[r])
              => (req_[r] = "set" /\ req_'[r] = "null"
                  /\ doneCount'[r] = doneCount[r] + 1 /\ cbCount'[r] = cbCount[r] + 1)]_vars
  /\ [](\A r \in Reqs : cbCount[r] <= 1 /\ doneCount[r] <= 1)

\* a submitted request was completed by the engine: callback ran once,
\* the wrapper is gone, the engine object was freed once
C2_Witness ==
  \E r \in Reqs :
    /\ cbCount[r] = 1 /\ doneCount[r] = 1 /\ req_[r] = "null"
    /\ wrapper[r] = "deleted" /\ engFree[r] = 1

\* C12 as claimed: ~HttpConnection touches nothing but conn_: a wrapper
\* submitted on the connection and still pending keeps a valid engine
\* object once the connection is gone, and no engine object is freed
\* twice on the wrapper's way to its end of life
C12_ConnDtorLeavesRequests ==
  \A r \in Reqs :
    /\ (Running /\ conn = "freed" /\ wrapper[r] = "alive" /\ req_[r] = "set")
          => engFree[r] = 0
    /\ engFree[r] <= 1

\* C14 as claimed: every run of Done found the wrapper alive with its
\* valid engine object, invoked the callback once, nulled req_ and deleted
\* the wrapper, leaving the engine object to the engine; no wrapper is
\* deleted twice, and none is touched by Done after its destruction
C14_DoneOnLiveWrapperOnce ==
  \A r \in Reqs :
    /\ wrapperDel[r] <= 1
    /\ doneCount[r] > 0 =>
         /\ cbCount[r] = doneCount[r] /\ doneCount[r] = 1
         /\ req_[r] = "null" /\ wrapper[r] = "deleted"
         /\ freedBy[r] = {"engine"} /\ engFree[r] = 1

(***************************************************************************)
(* HttpServer                                                              *)
(***************************************************************************)
\* HttpServer::HttpServer: http_(base.HttpNew()), CHECK_NOTNULL(evhttp_new(base_))
HttpServerCtor(s) ==
  /\ Running /\ base = "ok" /\ http[s] = "none"
  /\ \E allocated \in BOOLEAN :
       IF allocated
         THEN http' = [http EXCEPT ![s] = "alive"] /\ UNCHANGED proc
         ELSE proc' = "abort:HttpNew" /\ UNCHANGED http
  /\ UNCHANGED <<srvOthers, handlers_, engineCbs, boundPorts, lastAdd, handled>>

\* ports some live endpoint listens on
PortsInUse == UNION {boundPorts[s] : s \in Servers}

\* HttpServer::Bind when evhttp_bind_socket returns rc.  The engine cannot
\* bind a port that is being listened on, and may fail for other reasons
\* of the environment.
BindResult(s, port, rc) ==
  /\ Running /\ http[s] = "alive"
  /\ rc = 0 => port \notin PortsInUse
  /\ IF rc = 0
       THEN boundPorts' = [boundPorts EXCEPT ![s] = @ \cup {port}] /\ UNCHANGED proc
       ELSE proc' = "abort:Bind" /\ UNCHANGED boundPorts
  /\ UNCHANGED <<srvOthers, http, handlers_, engineCbs, lastAdd, handled>>

\* HttpServer::Bind: CHECK_EQ(evhttp_bind_socket(http_, address, port), 0)
Bind(s, port) == \E rc \in {0, -1} : BindResult(s, port, rc)

\* paths the endpoint of s has a callback for
RegisteredPaths(s) == {handlers_[s][i].path : i \in engineCbs[s]}

\* evhttp_set_cb(http_, path, &HandleRequest, handler): 0 when the callback
\* was added, -1 when the path already has one, -2 when the engine could
\* not allocate the entry
evhttp_set_cb(s, path) ==
  IF path \in RegisteredPaths(s) THEN {-1} ELSE {0, -2}

AddHandlerResult_Inverted(rc) == rc # 0

\* return evhttp_set_cb(...) == 0;
AddHandlerResult(rc) == rc = 0

\* HttpServer::AddHandler: the record is created and pushed first, then
\* registered with the endpoint
AddHandler(s, path) ==
  /\ Running /\ http[s] = "alive"
  /\ Len(handlers_[s]) < MaxHandlers
  /\ \E rc \in evhttp_set_cb(s, path) :
       /\ handlers_' = [handlers_ EXCEPT ![s] =
                          Append(@, [path |-> path, live |-> TRUE, ok |-> AddHandlerResult(rc)])]
       /\ engineCbs' = [engineCbs EXCEPT ![s] =
                          IF rc = 0 THEN @ \cup {Len(handlers_[s]) + 1} ELSE @]
       /\ lastAdd' = [lastAdd EXCEPT ![s] =
                        [called |-> TRUE, rc |-> rc, ret |-> AddHandlerResult(rc)]]
  /\ UNCHANGED <<proc, srvOthers, http, boundPorts, handled>>

\* HttpServer::HandleRequest(req, userdata): the endpoint received a
\* request for a registered path and calls the record's cb
HandleRequest(s, i) ==
  /\ Running /\ http[s] = "alive" /\ boundPorts[s] # {}
  /\ i \in engineCbs[s]
  /\ handled' = [server |-> s, index |-> i]
  /\ UNCHANGED <<proc, srvOthers, http, handlers_, engineCbs, boundPorts, lastAdd>>

\* a destructor that leaves the endpoint, and so its sockets, in place
SocketsAfterFree_Kept(s) == boundPorts[s]

\* evhttp_free(http_): the listening sockets of the endpoint are closed
SocketsAfterFree(s) == {}

\* a loop that stops one record short of handlers_.end()
DeleteAll_ButLast(hs) ==
  [i \in 1..Len(hs) |-> IF i < Len(hs) THEN [hs[i] EXCEPT !.live = FALSE] ELSE hs[i]]

\* for (it = handlers_.begin(); it != handlers_.end(); ++it) delete *it;
DeleteAll(hs) == [i \in 1..Len(hs) |-> [hs[i] EXCEPT !.live = FALSE]]

\* HttpServer::~HttpServer: evhttp_free(http_) closes the listening
\* sockets and drops the callbacks, then every Handler is deleted
HttpServerDtor(s) ==
  /\ Running /\ http[s] = "alive"
  /\ http' = [http EXCEPT ![s] = "freed"]
  /\ engineCbs' = [engineCbs EXCEPT ![s] = {}]
  /\ boundPorts' = [boundPorts EXCEPT ![s] = SocketsAfterFree(s)]
  /\ handlers_' = [handlers_ EXCEPT ![s] = DeleteAll(@)]
  /\ UNCHANGED <<proc, srvOthers, lastAdd, handled>>

InitServer ==
  /\ proc = "running" /\ base = "ok"
  /\ ConnInit0 /\ DnsInit0 /\ ReqInit0 /\ SrvInit0 /\ LoopInit0 /\ EvInit0 /\ ThrInit0

NextServer ==
  \E s \in Servers :
    \/ HttpServerCtor(s)
    \/ \E port \in BindPorts : Bind(s, port)
    \/ \E path \in Paths : AddHandler(s, path)
    \/ \E i \in 1..MaxHandlers : HandleRequest(s, i)
    \/ HttpServerDtor(s)

SpecServer == InitServer /\ [][NextServer]_vars

\* C8: AddHandler reports failure as a value: it returns false exactly
\* when evhttp_set_cb reported failure (a non-zero result) and true
\* otherwise; a step that adds a handler never ends the process; and after
\* a false return the server is still usable: the registered handlers
\* still dispatch, AddHandler can be called again and the destructor runs.
C8_AddHandlerReportsFailure ==
  /\ [](\A s \in Servers :
         /\ lastAdd[s].called => (lastAdd[s].ret <=> lastAdd[s].rc = 0)
         /\ (Running /\ http[s] = "alive" /\ lastAdd[s].called /\ ~lastAdd[s].ret) =>
              /\ ENABLED HttpServerDtor(s)
              /\ \A i \in engineCbs[s] : boundPorts[s] # {} => ENABLED HandleRequest(s, i)
              /\ Len(handlers_[s]) < MaxHandlers =>
                    \A path \in Paths : ENABLED AddHandler(s, path))
  /\ [][\A s \in Servers :
          Len(handlers_'[s]) > Len(handlers_[s]) => (proc' = "running" /\ http'[s] = "alive")]_vars

\* AddHandler returned false for a repeated path while an earlier handler
\* is registered on a bound server
C8_Witness ==
  \E s \in Servers :
    /\ http[s] = "alive" /\ lastAdd[s].called /\ lastAdd[s].rc = -1 /\ ~lastAdd[s].ret
    /\ engineCbs[s] # {} /\ boundPorts[s] # {} /\ Len(handlers_[s]) < MaxHandlers

\* C9 as claimed: no two Handler records a server owns share a path
C9_UniquePathPerRecord ==
  \A s \in Servers : \A i, j \in 1..Len(handlers_[s]) :
    (i # j) => handlers_[s][i].path # handlers_[s][j].path

\* C13: once an HttpServer is destroyed its endpoint listens on nothing:
\* the destructor closes every socket Bind opened, whatever handlers were
\* added, so a bind of another live server to a port the destroyed one
\* had bound can succeed (it is refused by no socket left behind).
C13_NoSocketAfterDtor ==
  /\ [](\A s \in Servers : http[s] # "alive" => boundPorts[s] = {})
  /\ [][\A s \in Servers :
          (http[s] = "alive" /\ http'[s] = "freed") =>
             (boundPorts'[s] = {} /\ proc' = "running")]_vars
  /\ [](\A s, s2 \in Servers : \A port \in BindPorts :
          (Running /\ http[s] = "freed" /\ http[s2] = "alive" /\ port \notin boundPorts[s2])
             => ENABLED BindResult(s2, port, 0))

\* the first server was bound, got handlers, served a request and was
\* destroyed; the second server then bound the same port
C13_Witness ==
  /\ handled = [server |-> "first", index |-> 1]
  /\ http["first"] = "freed" /\ Len(handlers_["first"]) > 1
  /\ http["second"] = "alive" /\ 8080 \in boundPorts["second"]

\* C15: every AddHandler call, whatever it returns, appends exactly one
\* live Handler record; while the server lives no record is removed or
\* deleted; the destructor drops every callback of the endpoint and
\* deletes every record, each once; so every record the endpoint can
\* dispatch to, and every record HandleRequest is called with, is live.
C15_HandlersOwnedUntilDtor ==
  /\ [][\A s \in Servers : \A path \in Paths :
          AddHandler(s, path) =>
             /\ Len(handlers_'[s]) = Len(handlers_[s]) + 1
             /\ SubSeq(handlers_'[s], 1, Len(handlers_[s])) = handlers_[s]
             /\ handlers_'[s][Len(handlers_'[s])].path = path
             /\ handlers_'[s][Len(handlers_'[s])].live]_vars
  /\ [][\A s \in Servers :
          /\ http'[s] = http[s] =>
               SubSeq(handlers_'[s], 1, Len(handlers_[s])) = handlers_[s]
          /\ Len(handlers_'[s]) >= Len(handlers_[s])
          /\ \A i \in 1..Len(handlers_[s]) :
               ~handlers_[s][i].live => ~handlers_'[s][i].live
          /\ HttpServerDtor(s) =>
               /\ engineCbs'[s] = {}
               /\ \A i \in 1..Len(handlers_[s]) :
                    handlers_[s][i].live /\ ~handlers_'[s][i].live
          /\ \A i \in 1..MaxHandlers :
               HandleRequest(s, i) => (i <= Len(handlers_[s]) /\ handlers_[s][i].live)]_vars
  /\ [](\A s \in Servers :
          /\ \A i \in engineCbs[s] : i <= Len(handlers_[s]) /\ handlers_[s][i].live
          /\ http[s] = "alive" => \A i \in 1..Len(handlers_[s]) : handlers_[s][i].live
          /\ http[s] = "freed" => \A i \in 1..Len(handlers_[s]) : ~handlers_[s][i].live)

\* a destroyed server that owned a registered record, which was dispatched
\* to, and a record whose AddHandler returned false
C15_Witness ==
  \E s \in Servers :
    /\ http[s] = "freed" /\ Len(handlers_[s]) >= 2
    /\ handled.server = s /\ handled.index > 0
    /\ \E i, j \in 1..Len(handlers_[s]) : handlers_[s][i].ok /\ ~handlers_[s][j].ok

(***************************************************************************)
(* Base and event_base_loop                                                *)
(***************************************************************************)
\* Base::Base: base_(event_base_new()), dns_(NULL).  The pointer is stored
\* as returned; evthread_make_base_notifiable(base_) reports a NULL base by
\* its result, which is not looked at.
BaseCtor ==
  /\ Running /\ base = "none"
  /\ \E allocated \in BOOLEAN : base' = IF allocated THEN "ok" ELSE "null"
  /\ UNCHANGED <<proc, loopOthers, loopVars, evVars>>

\* the signal events the SetExitLoopHandler calls of Dispatch created
\* with evsignal_new on base_: one per signal and call, none is ever freed
SignalRegistrations == Cardinality(Signals) * dispatchCalls

\* Base::~Base: if (dns_) evdns_base_free(dns_, true); event_base_free(base_).
\* The caller has destroyed the Events first and no loop call is running;
\* event_base_free does not free the events still registered on the base.
BaseDtor ==
  /\ Running /\ base \in {"ok", "null"}
  /\ loopPc = "idle" /\ inCb = NoCb
  /\ \A e \in Events : evObj[e] # "alive"
  /\ \A s \in Servers : http[s] # "alive"
  /\ conn # "alive"
  /\ base' = "freed"
  /\ dns_' = 0
  /\ UNCHANGED <<proc, connVars, reqVars, srvVars, loopVars, evVars, thrVars,
                 dnsCreated, dnsLock, tpc, tvia, tret, tcalls>>

Handler_ExitLoop_Nothing == UNCHANGED exitEv

\* Handler_ExitLoop: event_base_loopexit(base, NULL) schedules a one-shot
\* event whose callback sets event_gotterm
Handler_ExitLoop == exitEv' = IF exitEv = "none" THEN "pending" ELSE exitEv

\* Base::Dispatch: SetExitLoopHandler for SIGHUP, SIGINT and SIGTERM
\* (CHECK_NOTNULL(evsignal_new), CHECK_GE(event_add, 0)), then
\* event_base_dispatch, which clears event_gotterm and enters the loop.
\* With a NULL base_ event_add fails on the first signal event.
Dispatch ==
  /\ Running /\ base \in {"ok", "null"} /\ loopPc = "idle"
  /\ dispatchCalls < MaxDispatch
  /\ \E registered \in BOOLEAN :
       IF base = "ok" /\ registered
         THEN /\ dispatchCalls' = dispatchCalls + 1
              /\ loopCall' = "Dispatch"
              /\ loopFlags' = "FOREVER"
              /\ gotterm' = FALSE
              /\ nRun' = FALSE
              /\ loopPc' = "top"
              /\ UNCHANGED proc
         ELSE /\ proc' = "abort:SetExitLoopHandler"
              /\ UNCHANGED <<dispatchCalls, loopCall, loopFlags, gotterm, nRun, loopPc>>
  /\ UNCHANGED <<base, loopOthers, evVars, exitEv, sigPending, sigActive, inCb, addCalls>>

DispatchOnceFlags_NonBlock == "NONBLOCK"

\* the flags Base::DispatchOnce hands to event_base_loop: EVLOOP_ONCE
DispatchOnceFlags == "ONCE"

\* Base::DispatchOnce: CHECK_EQ(event_base_loop(base_, EVLOOP_ONCE), 0).
\* event_base_loop dereferences the base: a NULL base_ crashes.
DispatchOnce ==
  /\ Running /\ base \in {"ok", "null"} /\ loopPc = "idle"
  /\ IF base = "ok"
       THEN /\ loopCall' = "DispatchOnce"
            /\ loopFlags' = DispatchOnceFlags
            /\ gotterm' = FALSE
            /\ nRun' = FALSE
            /\ loopPc' = "top"
            /\ UNCHANGED proc
       ELSE /\ proc' = "abort:NullBase"
            /\ UNCHANGED <<loopCall, loopFlags, gotterm, nRun, loopPc>>
  /\ UNCHANGED <<base, loopOthers, evVars, exitEv, dispatchCalls, sigPending, sigActive,
                 inCb, addCalls>>

\* event_haveevents || N_ACTIVE_CALLBACKS: some event is added or active.
\* The signal events of Dispatch stay added once registered.
HaveEvents ==
  \/ dispatchCalls > 0
  \/ exitEv # "none"
  \/ sigActive > 0
  \/ \E e \in Events : evPending[e] \/ evRes[e] # "none"

\* head of the loop: leave with 0 when event_gotterm is set, leave with 1
\* when no event is registered (the CHECK_EQ(..., 0) of the caller then
\* fails), otherwise go and wait
LoopTop ==
  /\ Running /\ loopPc = "top"
  /\ IF gotterm
       THEN loopPc' = "idle" /\ UNCHANGED proc
       ELSE IF ~HaveEvents
         THEN /\ proc' = IF loopCall = "Dispatch" THEN "abort:Dispatch" ELSE "abort:DispatchOnce"
              /\ UNCHANGED loopPc
         ELSE loopPc' = "wait" /\ UNCHANGED proc
  /\ UNCHANGED <<base, loopOthers, evVars, loopCall, loopFlags, gotterm, exitEv, dispatchCalls,
                 sigPending, sigActive, inCb, nRun, addCalls>>

Expired(e) == evTv[e] >= 0 /\ evElapsed[e] >= evTv[e]

\* an added event whose condition is met or whose timeout has run out
Fires(e) == evPending[e] /\ evRes[e] = "none" /\ (evReady[e] \/ Expired(e))

SomethingReady ==
  \/ \E e \in Events : Fires(e)
  \/ sigPending # {} /\ dispatchCalls > 0
  \/ exitEv = "pending"

\* the backend dispatch and timeout_process: waits until something is
\* ready unless the loop runs with EVLOOP_NONBLOCK, then makes every ready
\* event active.  An event without EV_PERSIST is removed as it is made
\* active, its timeout with it; a persistent one has its timeout restarted.
LoopPoll ==
  /\ Running /\ loopPc = "wait"
  /\ SomethingReady \/ loopFlags = "NONBLOCK"
  /\ evRes' = [e \in Events |->
                 IF Fires(e) THEN (IF evReady[e] THEN "READ" ELSE "TIMEOUT") ELSE evRes[e]]
  /\ evPending' = [e \in Events |-> IF Fires(e) /\ ~evPersist[e] THEN FALSE ELSE evPending[e]]
  /\ evTv' = [e \in Events |-> IF Fires(e) /\ ~evPersist[e] THEN -1 ELSE evTv[e]]
  /\ armTimed' = [e \in Events |-> IF Fires(e) /\ ~evPersist[e] THEN -1 ELSE armTimed[e]]
  /\ evElapsed' = [e \in Events |-> IF Fires(e) THEN 0 ELSE evElapsed[e]]
  /\ sigActive' = IF dispatchCalls > 0 THEN Cardinality(sigPending) ELSE sigActive
  /\ sigPending' = IF dispatchCalls > 0 THEN {} ELSE sigPending
  /\ exitEv' = IF exitEv = "pending" THEN "active" ELSE exitEv
  /\ nRun' = FALSE
  /\ loopPc' = "run"
  /\ UNCHANGED <<proc, base, loopOthers, loopCall, loopFlags, gotterm, dispatchCalls, inCb,
                 addCalls, evObj, evPersist, evReady, armLast>>

\* a trampoline that calls cb_ without the flags it was given
DispatchFlags_Dropped(e) == "none"

\* the events argument Event::Dispatch hands on to cb_: the flags the
\* engine activated the event with
DispatchFlags(e) == evRes[e]

\* Event::Dispatch(sock, events, userdata): the loop calls the trampoline
\* of an active event, which calls cb_(sock, events); the callback consumes
\* the input that made the descriptor ready
RunEventCb(e) ==
  /\ Running /\ loopPc = "run" /\ inCb = NoCb
  /\ evRes[e] # "none"
  /\ inCb' = [kind |-> "ev", id |-> e, flags |-> DispatchFlags(e)]
  /\ evRes' = [evRes EXCEPT ![e] = "none"]
  /\ evReady' = [evReady EXCEPT ![e] = IF evRes[e] = "READ" THEN FALSE ELSE @]
  /\ UNCHANGED <<proc, base, loopOthers, loopPc, loopCall, loopFlags, gotterm, exitEv,
                 dispatchCalls, sigPending, sigActive, nRun, addCalls,
                 evObj, evPersist, evPending, evTv, evElapsed, armLast, armTimed>>

\* the loop calls Handler_ExitLoop for an active signal event
RunSignalCb ==
  /\ Running /\ loopPc = "run" /\ inCb = NoCb
  /\ sigActive > 0
  /\ inCb' = [kind |-> "sig", id |-> 0, flags |-> "SIGNAL"]
  /\ sigActive' = sigActive - 1
  /\ UNCHANGED <<proc, base, loopOthers, evVars, loopPc, loopCall, loopFlags, gotterm, exitEv,
                 dispatchCalls, sigPending, nRun, addCalls>>

\* the loop calls the callback of the loopexit event
RunExitCb ==
  /\ Running /\ loopPc = "run" /\ inCb = NoCb
  /\ exitEv = "active"
  /\ inCb' = [kind |-> "exit", id |-> 0, flags |-> "TIMEOUT"]
  /\ exitEv' = "none"
  /\ UNCHANGED <<proc, base, loopOthers, evVars, loopPc, loopCall, loopFlags, gotterm,
                 dispatchCalls, sigPending, sigActive, nRun, addCalls>>

\* the callback in flight returns to the loop
CallbackReturn ==
  /\ Running /\ inCb # NoCb
  /\ inCb' = NoCb
  /\ nRun' = TRUE
  /\ IF inCb.kind = "sig" THEN Handler_ExitLoop ELSE UNCHANGED exitEv
  /\ gotterm' = IF inCb.kind = "exit" THEN TRUE ELSE gotterm
  /\ UNCHANGED <<proc, base, loopOthers, evVars, loopPc, loopCall, loopFlags,
                 dispatchCalls, sigPending, sigActive, addCalls>>

NoActive == sigActive = 0 /\ exitEv # "active" /\ \A e \in Events : evRes[e] = "none"

\* end of event_process_active: with EVLOOP_ONCE the loop is done once
\* callbacks ran and none is left, with EVLOOP_NONBLOCK once a pass ran
\* none; it then returns 0
PassEnd ==
  /\ Running /\ loopPc = "run" /\ inCb = NoCb /\ NoActive
  /\ loopPc' = IF (nRun /\ loopFlags = "ONCE") \/ (~nRun /\ loopFlags = "NONBLOCK")
                 THEN "idle" ELSE "top"
  /\ UNCHANGED <<proc, base, loopOthers, evVars, loopCall, loopFlags, gotterm, exitEv,
                 dispatchCalls, sigPending, sigActive, inCb, nRun, addCalls>>

\* the process receives one of the signals Dispatch registered for
SignalDeliver(sig) ==
  /\ Running /\ dispatchCalls > 0
  /\ sig \notin sigPending
  /\ sigPending' = sigPending \cup {sig}
  /\ UNCHANGED <<proc, base, loopOthers, evVars, loopPc, loopCall, loopFlags, gotterm, exitEv,
                 dispatchCalls, sigActive, inCb, nRun, addCalls>>

\* one tick of the clock
Tick ==
  /\ Running
  /\ \E e \in Events : evTv[e] >= 0 /\ evElapsed[e] < evTv[e]
  /\ evElapsed' = [e \in Events |->
                     IF evTv[e] >= 0 /\ evElapsed[e] < evTv[e] THEN evElapsed[e] + 1
                     ELSE evElapsed[e]]
  /\ UNCHANGED <<proc, base, loopOthers, loopVars, evObj, evPersist, evPending, evRes, evTv,
                 evReady, armLast, armTimed>>

(***************************************************************************)
(* Event                                                                   *)
(***************************************************************************)
\* Event::Event: ev_(base.EventNew(sock, events, this)),
\* CHECK_NOTNULL(event_new(base_, sock, events, &Event::Dispatch, event));
\* the event is not added yet
EventCtor(e, persist) ==
  /\ Running /\ base \in {"ok", "null"} /\ evObj[e] = "none"
  /\ \E allocated \in BOOLEAN :
       IF allocated
         THEN /\ evObj' = [evObj EXCEPT ![e] = "alive"]
              /\ evPersist' = [evPersist EXCEPT ![e] = persist]
              /\ UNCHANGED proc
         ELSE /\ proc' = "abort:EventNew"
              /\ UNCHANGED <<evObj, evPersist>>
  /\ UNCHANGED <<base, loopOthers, loopVars, evPending, evRes, evTv, evElapsed, evReady,
                 armLast, armTimed>>

\* the timeval Event::Add builds from timeout (t ticks, a double in
\* seconds in the code): tvp stays NULL (set = FALSE) for a negative
\* timeout, otherwise tv_sec = trunc(timeout) and tv_usec = the rest times
\* kNumMicrosPerSecond
AddTv(t) ==
  IF t >= 0
    THEN [set |-> TRUE, sec |-> t \div TicksPerSec,
          usec |-> ((t % TicksPerSec) * kNumMicrosPerSecond) \div TicksPerSec]
    ELSE [set |-> FALSE, sec |-> 0, usec |-> 0]

\* the length of a timeval in ticks, rounded up as a timer is never early
TvTicks(tv) ==
  tv.sec * TicksPerSec
    + (tv.usec * TicksPerSec + kNumMicrosPerSecond - 1) \div kNumMicrosPerSecond

\* Event::Add(timeout): CHECK_EQ(event_add(ev_, tvp), 0).  event_add makes
\* the event pending; a non-NULL tvp sets its timeout, replacing an earlier
\* one (and takes back a timeout activation not yet delivered); a NULL tvp
\* leaves an earlier timeout as it is.  An event made on a NULL base_ has
\* no base: event_add fails.
EventAdd(e, t) ==
  /\ Running /\ evObj[e] = "alive"
  /\ t >= 0 => addCalls < MaxAdds
  /\ \E rc \in {0, -1} :
       IF rc = 0 /\ base = "ok"
         THEN LET tv == AddTv(t) IN
              /\ addCalls' = IF t >= 0 THEN addCalls + 1 ELSE addCalls
              /\ evPending' = [evPending EXCEPT ![e] = TRUE]
              /\ evTv' = [evTv EXCEPT ![e] = IF tv.set THEN TvTicks(tv) ELSE @]
              /\ evElapsed' = [evElapsed EXCEPT ![e] = IF tv.set THEN 0 ELSE @]
              /\ evRes' = [evRes EXCEPT ![e] = IF tv.set /\ @ = "TIMEOUT" THEN "none" ELSE @]
              /\ armLast' = [armLast EXCEPT ![e] = IF t >= 0 THEN "timed" ELSE "negative"]
              /\ armTimed' = [armTimed EXCEPT ![e] = IF t >= 0 THEN t ELSE @]
              /\ UNCHANGED proc
         ELSE /\ proc' = "abort:EventAdd"
              /\ UNCHANGED <<addCalls, evPending, evTv, evElapsed, evRes, armLast, armTimed>>
  /\ UNCHANGED <<base, loopOthers, loopPc, loopCall, loopFlags, gotterm, exitEv, dispatchCalls,
                 sigPending, sigActive, inCb, nRun, evObj, evPersist, evReady>>

\* a destructor that leaves the registration with the engine
EventDtor_NoFree(e) ==
  /\ Running /\ evObj[e] = "alive"
  /\ evObj' = [evObj EXCEPT ![e] = "freed"]
  /\ UNCHANGED <<proc, base, loopOthers, loopVars, evPersist, armLast,
                 evPending, evRes, evTv, armTimed, evElapsed, evReady>>

\* Event::~Event: event_free(ev_) removes the event from the base
EventDtor(e) ==
  /\ Running /\ evObj[e] = "alive"
  /\ evObj' = [evObj EXCEPT ![e] = "freed"]
  /\ evPending' = [evPending EXCEPT ![e] = FALSE]
  /\ evRes' = [evRes EXCEPT ![e] = "none"]
  /\ evTv' = [evTv EXCEPT ![e] = -1]
  /\ armTimed' = [armTimed EXCEPT ![e] = -1]
  /\ evElapsed' = [evElapsed EXCEPT ![e] = 0]
  /\ evReady' = [evReady EXCEPT ![e] = FALSE]
  /\ UNCHANGED <<proc, base, loopOthers, loopVars, evPersist, armLast>>

\* the descriptor of an added event becomes readable
BecomeReady(e) ==
  /\ Running /\ evObj[e] = "alive" /\ evPending[e] /\ ~evReady[e]
  /\ evReady' = [evReady EXCEPT ![e] = TRUE]
  /\ UNCHANGED <<proc, base, loopOthers, loopVars, evObj, evPersist, evPending, evRes, evTv,
                 evElapsed, armLast, armTimed>>

InitLoop ==
  /\ proc = "running" /\ base = "none"
  /\ ConnInit0 /\ DnsInit0 /\ ReqInit0 /\ SrvInit0 /\ LoopInit0 /\ EvInit0 /\ ThrInit0

\* the steps event_base_loop takes by itself
LoopSteps ==
  \/ LoopTop
  \/ LoopPoll
  \/ \E e \in Events : RunEventCb(e)
  \/ RunSignalCb
  \/ RunExitCb
  \/ CallbackReturn
  \/ PassEnd

NextLoop ==
  \/ BaseCtor
  \/ BaseDtor
  \/ Dispatch
  \/ DispatchOnce
  \/ LoopSteps
  \/ \E sig \in Signals : SignalDeliver(sig)
  \/ \E e \in Events :
       \/ \E persist \in BOOLEAN : EventCtor(e, persist)
       \/ EventAdd(e, -1)
       \/ EventDtor(e)
       \/ BecomeReady(e)

SpecLoop == InitLoop /\ [][NextLoop]_vars

\* the loop thread keeps running and callbacks return
FairSpecLoop == SpecLoop /\ WF_vars(LoopSteps)

Timeouts == (-1)..MaxTimeout

InitEvent ==
  /\ proc = "running" /\ base = "ok"
  /\ ConnInit0 /\ DnsInit0 /\ ReqInit0 /\ SrvInit0 /\ LoopInit0 /\ EvInit0 /\ ThrInit0

\* the steps of the loop when no signal is delivered
EventLoopSteps ==
  \/ LoopTop
  \/ LoopPoll
  \/ \E e \in Events : RunEventCb(e)
  \/ CallbackReturn
  \/ PassEnd

NextEvent ==
  \/ Dispatch
  \/ EventLoopSteps
  \/ Tick
  \/ \E e \in Events :
       \/ \E persist \in BOOLEAN : EventCtor(e, persist)
       \/ \E t \in Timeouts : EventAdd(e, t)
       \/ EventDtor(e)
       \/ BecomeReady(e)

SpecEvent == InitEvent /\ [][NextEvent]_vars

\* the loop thread keeps running, callbacks return and time passes
FairSpecEvent == SpecEvent /\ WF_vars(EventLoopSteps) /\ WF_vars(Tick)

\* the callback of Event e is being executed with the timeout flag
TimeoutCb(e) == inCb.kind = "ev" /\ inCb.id = e /\ inCb.flags = "TIMEOUT"

\* Event e waits, under a running loop, with the timeout of an Add in
\* effect and its interest condition not met
WaitingTimed(e) ==
  /\ Running /\ loopPc # "idle"
  /\ evObj[e] = "alive" /\ evPending[e] /\ evRes[e] = "none"
  /\ armTimed[e] >= 0 /\ ~evReady[e]

\* an Event armed with a timeout does not wait forever: it gets the
\* timeout invocation, unless its condition is met, it is destroyed or
\* the loop stops first
TimedArmFires ==
  \A e \in Events :
    WaitingTimed(e) ~>
      (TimeoutCb(e) \/ evReady[e] \/ evObj[e] # "alive" \/ loopPc = "idle" \/ ~Running)

\* C10 as claimed: an Event whose latest Add had a negative timeout is
\* never made active with the timeout flag (so never gets a
\* timeout-flavoured invocation), and an Event armed with a timeout t >= 0
\* whose condition is not met eventually gets one
C10_NegativeArmNeverTimesOut ==
  /\ [][\A e \in Events :
          (evRes'[e] = "TIMEOUT" /\ evRes[e] # "TIMEOUT") => armLast[e] # "negative"]_vars
  /\ TimedArmFires

\* C16: ~Event frees the registration of a live Event whatever state it
\* is in (never added, added and waiting, already made active), an Event
\* is freed once and stays freed, a freed Event has nothing left with the
\* engine, and the loop starts the trampoline only for a live Event.
C16_DtorUnregisters ==
  /\ [][\A e \in Events :
          /\ evObj[e] = "freed" => evObj'[e] = "freed"
          /\ EventDtor(e) =>
               (evObj[e] = "alive" /\ evObj'[e] = "freed" /\ proc' = "running")
          /\ (inCb' # inCb /\ inCb'.kind = "ev" /\ inCb'.id = e) =>
               (evObj[e] = "alive" /\ evRes[e] # "none")]_vars
  /\ [](\A e \in Events :
          evObj[e] # "alive" => (~evPending[e] /\ evRes[e] = "none" /\ evTv[e] = -1))
  /\ [](\A e \in Events : (Running /\ evObj[e] = "alive") => ENABLED EventDtor(e))

\* an Event that was armed with a timeout and made active was destroyed
\* before the loop ran its callback
C16_Witness ==
  \E e \in Events :
    /\ evObj[e] = "freed" /\ armLast[e] = "timed"
    /\ loopPc = "run" /\ ~nRun /\ inCb = NoCb

\* C17: for each activation the trampoline calls the callback once, with
\* the flags of the activation, and changes nothing of the Event: object,
\* flags, registration and timeout are as before, also when the callback
\* returns; an Event that is not added becomes added only by Event::Add.
C17_DispatchForwardsOnly ==
  /\ [][\A e \in Events :
          /\ RunEventCb(e) =>
               /\ evRes[e] # "none"
               /\ inCb' = [kind |-> "ev", id |-> e, flags |-> evRes[e]]
               /\ evRes'[e] = "none"
               /\ UNCHANGED <<evObj, evPersist, evPending, evTv, evElapsed, armLast, armTimed>>
          /\ (inCb.kind = "ev" /\ inCb' = NoCb) => UNCHANGED evVars
          /\ (~evPending[e] /\ evPending'[e]) => \E t \in Timeouts : EventAdd(e, t)
          /\ (evTv'[e] # evTv[e] /\ evTv'[e] >= 0) => \E t \in Timeouts : EventAdd(e, t)]_vars
  /\ [](\A e \in Events : (inCb.kind = "ev" /\ inCb.id = e) => evRes[e] = "none")

\* the callback of an Event without EV_PERSIST runs for a timeout and
\* the Event is not added again
C17_Witness ==
  \E e \in Events :
    /\ inCb = [kind |-> "ev", id |-> e, flags |-> "TIMEOUT"]
    /\ evObj[e] = "alive" /\ ~evPersist[e] /\ ~evPending[e]

\* C5 as claimed: a Base never exists with a NULL loop context (its
\* construction ends the process instead), so no later operation meets one
C5_ContextNeverNull == base # "null"

\* C19 as claimed: when the Base is destroyed no registration made on its
\* loop context is left, the signal events of Dispatch included, and a
\* loop never has more than three of those
C19_RegistrationsReleased ==
  /\ base = "freed" => SignalRegistrations = 0
  /\ SignalRegistrations <= Cardinality(Signals)

\* C6 as claimed: DispatchOnce never waits for a future event (whenever it
\* stands at the poll, the poll can proceed at once) and never ends the
\* process
C6_RunOnceNeverBlocksNorAborts ==
  /\ (Running /\ loopCall = "DispatchOnce" /\ loopPc = "wait") => ENABLED LoopPoll
  /\ proc # "abort:DispatchOnce"

\* C6 as amended: DispatchOnce runs one blocking iteration.  It stands at
\* the poll until some event is ready; it returns only after at least one
\* callback ran in its pass and none is left active; and it ends the
\* process, without waiting, when no event is registered on the loop.
C6_RunOnceBlocksUntilActive ==
  /\ []((Running /\ loopCall = "DispatchOnce" /\ loopPc = "wait")
          => (ENABLED LoopPoll <=> SomethingReady))
  /\ [](proc = "abort:DispatchOnce" => ~HaveEvents)
  /\ [][(loopCall = "DispatchOnce" /\ loopPc # "idle" /\ loopPc' = "idle")
          => (nRun /\ NoActive /\ inCb = NoCb /\ proc' = "running")]_vars

\* DispatchOnce has returned after running the callback of a ready Event
C6_Witness ==
  /\ Running /\ loopCall = "DispatchOnce" /\ loopPc = "idle" /\ nRun
  /\ \E e \in Events : evObj[e] = "alive" /\ armLast[e] = "negative" /\ ~evPending[e]

\* Dispatch is running and a termination signal was delivered
SignalSeen == loopCall = "Dispatch" /\ loopPc # "idle" /\ sigPending # {}

\* C7: a termination signal delivered while Dispatch runs makes Dispatch
\* return (unless a failed CHECK ends the process first); the callback in
\* flight is left only by returning, and Dispatch returns only between
\* passes, with no callback in flight and none left active.
C7_SignalExitsCooperatively ==
  /\ SignalSeen ~> (loopPc = "idle" \/ ~Running)
  /\ [][inCb # NoCb => (inCb' = inCb \/ (inCb' = NoCb /\ nRun') \/ proc' # "running")]_vars
  /\ [][(loopCall = "Dispatch" /\ loopPc # "idle" /\ loopPc' = "idle")
          => (gotterm /\ inCb = NoCb /\ NoActive /\ loopPc = "top")]_vars

\* a signal arrives while the callback of an Event is being executed
C7_Witness ==
  /\ loopCall = "Dispatch" /\ loopPc = "run" /\ sigPending # {}
  /\ inCb.kind = "ev"

InitConn ==
  /\ proc = "running" /\ base = "ok"
  /\ uriScheme \in Schemes \cup {NoScheme}
  /\ uriPort \in Ports
  /\ portResult = [set |-> FALSE, port |-> 0]
  /\ conn = "none"
  /\ DnsInit0 /\ ReqInit0 /\ SrvInit0 /\ LoopInit0 /\ EvInit0 /\ ThrInit0

NextConn ==
  \/ HttpConnectionCtor
  \/ HttpConnectionDtor

SpecConn == InitConn /\ [][NextConn]_vars

\* the port resolution policy as the specification words it
RefPort(scheme, port) ==
  IF port \in 1..65535 THEN port
  ELSE IF scheme = Str_http THEN 80 ELSE 0

InitDns ==
  /\ proc = "running" /\ base = "ok"
  /\ ConnInit0 /\ DnsInit0 /\ ReqInit0 /\ SrvInit0 /\ LoopInit0 /\ EvInit0 /\ ThrInit0

NextDns ==
  \E t \in Threads :
    \/ GetDnsCall(t)
    \/ GetDnsLock(t)
    \/ GetDnsCheck(t)
    \/ GetDnsCreate(t)
    \/ GetDnsReturn(t)
    \/ HttpConnectionNewAlloc(t)

SpecDns == InitDns /\ [][NextDns]_vars

\* threads between acquiring dns_lock_ and releasing it
InGetDns == {t \in Threads : tpc[t] \in {"check", "create", "ret"}}

\* C4: for one Base and any interleaving of GetDns calls (direct or through
\* HttpConnectionNew), at most one resolver handle is ever created, every
\* call that returns hands back that same non-null handle, and no two
\* threads are inside the check-and-create at the same time.
C4_SingleDnsHandle ==
  /\ dnsCreated <= 1
  /\ Cardinality(InGetDns) <= 1
  /\ \A t \in Threads :
       /\ tret[t] # 0 => tret[t] = dns_
       /\ (tpc[t] \in {"connnew", "idle"} /\ tcalls[t] > 0) => tret[t] # 0

\* two threads have both returned from GetDns, one of them through
\* HttpConnectionNew, after the handle was created once
C4_Witness ==
  \E t, u \in Threads :
    /\ t # u /\ tret[t] # 0 /\ tret[u] # 0
    /\ tpc[t] = "idle" /\ tpc[u] = "connnew"
    /\ dnsCreated = 1

\* the declared port of the URI is not in [1, 65535]
NoValidPort == uriPort < 1 \/ uriPort > 65535

\* C18 as claimed: port resolution never ends the process; for a URI
\* without a valid port whose scheme is not "http", a missing scheme
\* included, it yields 0 and the constructor goes on
C18_PortResolutionNeverFatal ==
  /\ proc # "abort:GetPortFromUri"
  /\ (NoValidPort /\ uriScheme # Str_http /\ portResult.set) => portResult.port = 0

\* C18 as amended: for a URI without a valid port whose scheme is present
\* and not "http", port resolution yields 0 and the constructor goes on to
\* allocate the connection; for a URI without a valid port and without a
\* scheme the CHECK_NOTNULL on the scheme ends the process in port
\* resolution, before anything is allocated; a URI without a scheme but
\* with a valid port resolves to that port.
C18_FatalOnlyWithoutScheme ==
  /\ (NoValidPort /\ uriScheme \notin {Str_http, NoScheme}) =>
       /\ proc # "abort:GetPortFromUri"
       /\ portResult.set => portResult.port = 0
       /\ conn # "none" => portResult.set
  /\ (NoValidPort /\ uriScheme = NoScheme) =>
       /\ ~portResult.set /\ conn = "none" /\ dnsCreated = 0
       /\ proc \in {"running", "abort:GetPortFromUri"}
       /\ Running => ENABLED HttpConnectionCtor
  /\ (~NoValidPort /\ uriScheme = NoScheme) =>
       /\ proc # "abort:GetPortFromUri"
       /\ portResult.set => portResult.port = uriPort

\* the constructor was stopped in port resolution for a URI without a
\* scheme and with declared port 0
C18_Witness ==
  /\ proc = "abort:GetPortFromUri" /\ uriScheme = NoScheme /\ uriPort = 0
  /\ conn = "none"

(***************************************************************************)
(* Several threads calling Dispatch and DispatchOnce on one Base.  The     *)
(* base has its lock (threading support is set up before the Base is       *)
(* made): event_base_loop tests and sets running_loop under that lock and  *)
(* refuses to run when another invocation is running on the base.          *)
(***************************************************************************)
\* an engine that lets a second invocation run on the same base
LoopEnter_NoCheck(running) == 0

\* what event_base_loop returns at once: -1 ("reentrant invocation") when
\* the base already runs a loop, otherwise 0 stands for going on
LoopEnter(running) == IF running THEN -1 ELSE 0

\* a thread calls Base::Dispatch or Base::DispatchOnce.  Dispatch first
\* registers its three signal events; then event_base_dispatch, or
\* event_base_loop(base_, EVLOOP_ONCE), either enters the loop or returns
\* -1, and CHECK_EQ(..., 0) ends the process.
ThreadLoopCall(t, call) ==
  /\ Running /\ base = "ok"
  /\ thrPc[t] = "out" /\ thrCalls[t] < MaxCalls
  /\ thrCalls' = [thrCalls EXCEPT ![t] = @ + 1]
  /\ \E registered \in BOOLEAN :
       IF call = "Dispatch" /\ ~registered
         THEN /\ proc' = "abort:SetExitLoopHandler"
              /\ UNCHANGED <<dispatchCalls, runningLoop, thrPc>>
         ELSE /\ dispatchCalls' = IF call = "Dispatch" THEN dispatchCalls + 1 ELSE dispatchCalls
              /\ IF LoopEnter(runningLoop) = 0
                   THEN /\ runningLoop' = TRUE
                        /\ thrPc' = [thrPc EXCEPT ![t] = "loop"]
                        /\ UNCHANGED proc
                   ELSE /\ proc' = IF call = "Dispatch" THEN "abort:Dispatch"
                                   ELSE "abort:DispatchOnce"
                        /\ UNCHANGED <<runningLoop, thrPc>>
  /\ UNCHANGED <<base, connVars, dnsVars, reqVars, srvVars, evVars, thrCb, readyCbs>>
  /\ UNCHANGED <<loopPc, loopCall, loopFlags, gotterm, exitEv, sigPending, sigActive, inCb,
                 nRun, addCalls>>

\* an Event fires, a request arrives for a handler, or a request completes
CallbackReady(k) ==
  /\ Running /\ base = "ok" /\ k \notin readyCbs
  /\ readyCbs' = readyCbs \cup {k}
  /\ UNCHANGED <<proc, base, connVars, dnsVars, reqVars, srvVars, loopVars, evVars,
                 runningLoop, thrPc, thrCb, thrCalls>>

\* the thread inside the loop calls one of the ready callbacks: through
\* Event::Dispatch, HttpServer::HandleRequest or HttpRequest::Done
ThreadRunCb(t, k) ==
  /\ Running /\ thrPc[t] = "loop" /\ k \in readyCbs
  /\ thrPc' = [thrPc EXCEPT ![t] = "cb"]
  /\ thrCb' = [thrCb EXCEPT ![t] = k]
  /\ readyCbs' = readyCbs \ {k}
  /\ UNCHANGED <<proc, base, connVars, dnsVars, reqVars, srvVars, loopVars, evVars,
                 runningLoop, thrCalls>>

\* the callback returns to the loop
ThreadCbReturn(t) ==
  /\ Running /\ thrPc[t] = "cb"
  /\ thrPc' = [thrPc EXCEPT ![t] = "loop"]
  /\ thrCb' = [thrCb EXCEPT ![t] = "none"]
  /\ UNCHANGED <<proc, base, connVars, dnsVars, reqVars, srvVars, loopVars, evVars,
                 runningLoop, thrCalls, readyCbs>>

\* event_base_loop returns 0 (an exit was requested, or the pass of
\* EVLOOP_ONCE is over) and clears running_loop; the CHECK_EQ passes
ThreadLoopReturn(t) ==
  /\ Running /\ thrPc[t] = "loop"
  /\ thrPc' = [thrPc EXCEPT ![t] = "out"]
  /\ runningLoop' = FALSE
  /\ UNCHANGED <<proc, base, connVars, dnsVars, reqVars, srvVars, loopVars, evVars,
                 thrCb, thrCalls, readyCbs>>

InitThreads ==
  /\ proc = "running" /\ base = "ok"
  /\ ConnInit0 /\ DnsInit0 /\ ReqInit0 /\ SrvInit0 /\ LoopInit0 /\ EvInit0 /\ ThrInit0

NextThreads ==
  \/ \E t \in Threads :
       \/ \E call \in {"Dispatch", "DispatchOnce"} : ThreadLoopCall(t, call)
       \/ \E k \in CbKinds : ThreadRunCb(t, k)
       \/ ThreadCbReturn(t)
       \/ ThreadLoopReturn(t)
  \/ \E k \in CbKinds : CallbackReady(k)

SpecThreads == InitThreads /\ [][NextThreads]_vars

\* threads executing a user callback of the loop
InCallback == {t \in Threads : thrPc[t] = "cb"}

====
